---- MODULE Spec2Model ----
(***************************************************************************)
(* Model of nature_global_path_node.cpp: the waypoint-sequencing control   *)
(* loop of main() and the subscription callbacks that feed it.             *)
(*                                                                         *)
(* One iteration of the while loop (lines 139-246) is one Tick step.  The  *)
(* callbacks run inside n->spin_some() (line 243), i.e. between two loop   *)
(* bodies, never in the middle of one.                                     *)
(*                                                                         *)
(* Positions are pairs <<x, y>> of small integers.  The published distance *)
(* d = sqrt(dx*dx + dy*dy) is carried as its square; d < goal_dist is      *)
(* decided as dx*dx + dy*dy < goal_dist*goal_dist (goal_dist > 0).         *)
(*                                                                         *)
(* The diagnostic counter nl (lines 134, 196, 216, 245) only drives the    *)
(* once-per-second console line and the header sequence number; it is not  *)
(* part of the state.                                                      *)
(***************************************************************************)
EXTENDS Integers, Sequences, FiniteSets, TLC

\* ------------------------------------------------------------------ bounds
\* longest waypoint list a new_waypoints message carries
MaxWaypoints == 2
\* longest raw path the planner returns
MaxPath == 2
\* how many poses past the end of the list a read can still return stale
\* memory; farther reads crash
MaxOverrun == 1

\* ------------------------------------------------------- program constants
\* default of ~goal_dist
goal_dist == 3
\* shutdown_count > 10 ends the loop
ShutdownTicks == 10

\* ------------------------------------------------------------ input domains
\* waypoint positions
Points == {<<0, 0>>, <<3, 0>>}

\* vehicle positions: (0,0) is on the first point and exactly goal_dist from
\* the second, (2,0) is closer than goal_dist to both, (3,2) is closer than
\* goal_dist to the second only
Poses == {<<0, 0>>, <<2, 0>>, <<3, 2>>}

\* outcome of a read that the build turns into a crash
Fault == <<"fault">>

RECURSIVE SeqsUpTo(_, _)
SeqsUpTo(S, n) ==
  IF n = 0 THEN {<<>>}
  ELSE LET shorter == SeqsUpTo(S, n - 1)
       IN  shorter \cup {Append(s, e) : s \in {t \in shorter : Len(t) = n - 1}, e \in S}

\* payloads of nature/new_waypoints: the routes of at most MaxWaypoints
\* positions that do not name the same position twice in a row
WaypointMsgs ==
  {w \in SeqsUpTo(Points, MaxWaypoints) :
     \A i \in 1..(Len(w) - 1) : w[i] # w[i + 1]}

\* values of the /waypoints_x and /waypoints_y parameters: no x for one y
\* (nothing is loaded, as when both are left empty), one x for two y, and
\* matching lists
ConfigParams ==
  {<< <<>>, <<0>> >>, << <<0>>, <<0, 0>> >>, << <<0, 3>>, <<0, 0>> >>}

\* values of the ~shutdown_behavior parameter
ShutdownParams == {0, 2, 4}

\* grids are opaque to the node, which only hands them to the planner: every
\* grid, the default-constructed one included, is the one abstract value
Grids == {"grid"}

VARIABLES
  odom, odom_rcvd, current_grid, segmentation_grid,
  current_waypoints, waypoints_rcvd,
  waypoints_x_list, waypoints_y_list,
  state, goal, shutdown_behavior,
  shutdown_condition, current_waypoint, shutdown_count, waypoints_change_once,
  pc,
  state_pub, planned, published, path, path_pub, curr_wp_pub, dist_pub,
  wp_fresh, goal_streak, active_ticks, far_seen

vars == <<odom, odom_rcvd, current_grid, segmentation_grid,
          current_waypoints, waypoints_rcvd,
          waypoints_x_list, waypoints_y_list,
          state, goal, shutdown_behavior,
          shutdown_condition, current_waypoint, shutdown_count,
          waypoints_change_once, pc,
          state_pub, planned, published, path, path_pub, curr_wp_pub,
          dist_pub, wp_fresh, goal_streak, active_ticks, far_seen>>

globals == <<odom, odom_rcvd, current_grid, segmentation_grid,
             current_waypoints, waypoints_rcvd>>
config  == <<waypoints_x_list, waypoints_y_list, shutdown_behavior>>
locals  == <<state, goal, shutdown_condition, current_waypoint,
             shutdown_count, waypoints_change_once>>
outputs == <<state_pub, planned, published, path, path_pub, curr_wp_pub,
             dist_pub>>
\* history kept for runs on a fixed list: the number of ticks that ran the
\* plan/progress block, counted while each was within the threshold of its
\* goal, and whether one was not
run     == <<active_ticks, far_seen>>

\* ------------------------------------------------------------- pure helpers
Min(a, b) == IF a < b THEN a ELSE b

\* variant: a selector above 3 is clamped to 3
ClampShutdown_Saturate(raw) == IF raw > 3 THEN 3 ELSE IF raw < 1 THEN 1 ELSE raw

\* if (shutdown_behavior>3 || shutdown_behavior<1) shutdown_behavior = 1;
ClampShutdown(raw) == IF raw > 3 \/ raw < 1 THEN 1 ELSE raw

\* variant: lists of different lengths load nothing
LoadWaypoints_AllOrNothing(xs, ys) ==
  IF Len(xs) # Len(ys) THEN <<>> ELSE [i \in 1..Len(xs) |-> <<xs[i], ys[i]>>]

\* the poses built from the first min(|x|,|y|) configured coordinates
LoadWaypoints(xs, ys) ==
  [i \in 1..Min(Len(xs), Len(ys)) |-> <<xs[i], ys[i]>>]

\* dx*dx + dy*dy
Dist2(g, p) ==
  (g[1] - p[1]) * (g[1] - p[1]) + (g[2] - p[2]) * (g[2] - p[2])

\* variant: a waypoint exactly goal_dist away counts as reached
Reached_Inclusive(d2) == d2 <= goal_dist * goal_dist

\* d < goal_dist
Reached(d2) == d2 < goal_dist * goal_dist

\* current_waypoint == current_waypoints.poses.size() - 1
\* size() is unsigned: for an empty list size()-1 is the largest size_t,
\* which no int index equals.
IsLastWaypoint(cw, wps) == Len(wps) >= 1 /\ cw = Len(wps) - 1

\* cp < current_waypoints.poses.size() - 1
\* for an empty list the right-hand side wraps to the largest size_t
BelowLast(cp, wps) == IF Len(wps) = 0 THEN TRUE ELSE cp < Len(wps) - 1

\* current_waypoints.poses[i].pose.position (0-based i): the stored position,
\* or for an index past the end either whatever the memory holds or a crash
ReadPose(wps, i) ==
  IF i < Len(wps) THEN {wps[i + 1]}
  ELSE IF i < Len(wps) + MaxOverrun THEN Points \cup {Fault}
  ELSE {Fault}

\* the while loop that appends the waypoints after cp to the planner's path
RECURSIVE AppendRemaining(_, _, _)
AppendRemaining(rp, wps, cp) ==
  IF BelowLast(cp, wps)
  THEN AppendRemaining(Append(rp, wps[cp + 2]), wps, cp + 1)
  ELSE rp

\* ros_path as published: the planner's points, extended when there are
\* more than one of them.  On an empty list the loop condition never turns
\* false and the reads run off the vector: the process dies.
ComposePath(raw, wps, cw) ==
  IF Len(raw) > 1
  THEN IF Len(wps) = 0 /\ BelowLast(cw, wps) THEN Fault
       ELSE AppendRemaining(raw, wps, cw)
  ELSE raw

\* astar_planner.PlanPath: opaque; some path of at most MaxPath points that
\* starts at the vehicle and heads for the goal
PlanPath(g, pos) ==
  {[i \in 1..n |-> IF i = 1 THEN pos ELSE g] : n \in 0..MaxPath}

\* --------------------------------------------------------------------- Init
\* the state when the while loop is first reached (lines 72-137)
Init ==
  /\ odom = <<0, 0>>
  /\ odom_rcvd = FALSE
  /\ current_grid \in Grids
  /\ segmentation_grid \in Grids
  /\ waypoints_rcvd = FALSE
  /\ \E c \in ConfigParams : waypoints_x_list = c[1] /\ waypoints_y_list = c[2]
  /\ \E raw \in ShutdownParams : shutdown_behavior = ClampShutdown(raw)
  /\ current_waypoints = LoadWaypoints(waypoints_x_list, waypoints_y_list)
  /\ goal = IF Len(current_waypoints) > 0 THEN current_waypoints[1] ELSE <<0, 0>>
  /\ state = IF Len(current_waypoints) > 0 THEN 0 ELSE -1
  /\ state_pub = IF Len(current_waypoints) > 0 THEN <<0>> ELSE <<>>
  /\ shutdown_condition = FALSE
  /\ current_waypoint = 0
  /\ shutdown_count = 0
  /\ waypoints_change_once = TRUE
  /\ pc = "start"
  /\ planned = FALSE
  /\ published = FALSE
  /\ path = <<>>
  /\ path_pub = <<>>
  /\ curr_wp_pub = 0
  /\ dist_pub = 0
  /\ wp_fresh = FALSE
  /\ goal_streak = 0
  /\ active_ticks = 0
  /\ far_seen = FALSE

\* ---------------------------------------------------------------- callbacks
\* callbacks are dispatched by spin_some(), so only once the loop runs
OdometryCallback ==
  /\ pc = "loop"
  /\ \E p \in Poses : odom' = p
  /\ odom_rcvd' = TRUE
  /\ UNCHANGED <<current_grid, segmentation_grid, current_waypoints,
                 waypoints_rcvd, config, locals, pc, outputs, wp_fresh,
                 goal_streak, run>>

MapCallback ==
  /\ pc = "loop"
  /\ \E g \in Grids : current_grid' = g
  /\ UNCHANGED <<odom, odom_rcvd, segmentation_grid, current_waypoints,
                 waypoints_rcvd, config, locals, pc, outputs, wp_fresh,
                 goal_streak, run>>

SegmentationMapCallback ==
  /\ pc = "loop"
  /\ \E g \in Grids : segmentation_grid' = g
  /\ UNCHANGED <<odom, odom_rcvd, current_grid, current_waypoints,
                 waypoints_rcvd, config, locals, pc, outputs, wp_fresh,
                 goal_streak, run>>

WaypointCallback ==
  /\ pc = "loop"
  /\ \E w \in WaypointMsgs : current_waypoints' = w
  /\ waypoints_rcvd' = TRUE
  /\ wp_fresh' = TRUE
  /\ UNCHANGED <<odom, odom_rcvd, current_grid, segmentation_grid,
                 config, locals, pc, outputs, goal_streak, run>>

\* nature::node::ok() turns false: the loop test fails at the next head
ExternalStop ==
  /\ pc \in {"start", "loop"}
  /\ pc' = "stopped"
  /\ UNCHANGED <<globals, config, locals, outputs, wp_fresh, goal_streak, run>>

\* ------------------------------------------------------------ the loop body
\* if (waypoints_rcvd && waypoints_change_once)
NewWaypoints == waypoints_rcvd /\ waypoints_change_once

\* variant: the index is reset on every tick once a list was received
ResetWaypoint_Always(apply, cw) == IF waypoints_rcvd THEN 0 ELSE cw

\* variant: the route restarts from its first waypoint once the goal was
\* reached
ResetWaypoint_OnGoal(apply, cw) == IF apply \/ shutdown_condition THEN 0 ELSE cw

\* current_waypoint after the new-waypoints block
ResetWaypoint(apply, cw) == IF apply THEN 0 ELSE cw

\* variant: a new list sends the state back to startup
GoActive_Startup(apply, st) == IF apply THEN -1 ELSE st

\* state.data after the new-waypoints block: state.data = 0 (go active)
GoActive(apply, st) == IF apply THEN 0 ELSE st

\* variant: the state is published only when a new list is applied
PublishState_OnNew(apply, st) == IF apply THEN <<0>> ELSE <<>>

\* state_pub->publish(state) at the loop head, and again after go active
PublishState(apply, st) == IF apply THEN <<st, 0>> ELSE <<st>>

\* variant: the startup test is left out
DataReady_NoStartupTest(st) == odom_rcvd

\* variant: the pose test is left out
DataReady_NoOdomTest(st) == st # -1

\* if (odom_rcvd && state.data != -1)
DataReady(st) == odom_rcvd /\ st # -1

\* variant: the goal test does not latch
GoalReached_NoLatch(d2, latch) == Reached(d2)

\* if (d<goal_dist || shutdown_condition)
GoalReached(d2, latch) == Reached(d2) \/ latch

\* variant: the index advances by two
NextWaypoint_Skip(cw) == cw + 2

\* current_waypoint++
NextWaypoint(cw) == cw + 1

\* variants: the loop ends one tick early, one tick late
Debounced_Early(cnt) == cnt >= ShutdownTicks
Debounced_Late(cnt) == cnt > ShutdownTicks + 1

\* if (shutdown_count>10) break;
Debounced(cnt) == cnt > ShutdownTicks

\* the read of poses[0] in the new-waypoints block crashed: current_waypoint
\* is already 0, the state was published once at the loop head
TickFaultReset ==
  /\ current_waypoint' = 0
  /\ state_pub' = <<state>>
  /\ planned' = FALSE
  /\ published' = FALSE
  /\ pc' = "fault"
  /\ goal_streak' = 0
  /\ UNCHANGED <<state, goal, shutdown_condition, shutdown_count,
                 waypoints_change_once, path, path_pub, curr_wp_pub, dist_pub>>

\* no pose yet, or still in startup: the plan/publish/progress block is skipped
TickSkip(apply, cw0, g0, st0, pub0) ==
  /\ current_waypoint' = cw0
  /\ goal' = g0
  /\ state' = st0
  /\ waypoints_change_once' = (waypoints_change_once /\ ~apply)
  /\ state_pub' = pub0
  /\ planned' = FALSE
  /\ published' = FALSE
  /\ pc' = "loop"
  /\ goal_streak' = 0
  /\ UNCHANGED <<shutdown_condition, shutdown_count, path, path_pub,
                 curr_wp_pub, dist_pub>>

\* the waypoint-appending loop ran off an empty list
TickFaultCompose(apply, cw0, g0, st0, pub0, raw) ==
  /\ current_waypoint' = cw0
  /\ goal' = g0
  /\ state' = st0
  /\ waypoints_change_once' = (waypoints_change_once /\ ~apply)
  /\ state_pub' = pub0
  /\ planned' = TRUE
  /\ published' = FALSE
  /\ path' = raw
  /\ pc' = "fault"
  /\ goal_streak' = 0
  /\ UNCHANGED <<shutdown_condition, shutdown_count, path_pub,
                 curr_wp_pub, dist_pub>>

\* lines 195-236: publish path, waypoints, index and distance, then check
\* the progression along the path
TickProgress(apply, cw0, g0, st0, pub0, raw, rp) ==
  LET d2 == Dist2(g0, odom)
      streak == IF cw0 = Len(current_waypoints) - 1 /\ d2 < goal_dist * goal_dist
                THEN goal_streak + 1 ELSE 0
  IN
  /\ waypoints_change_once' = (waypoints_change_once /\ ~apply)
  /\ path' = raw
  /\ path_pub' = rp
  /\ planned' = TRUE
  /\ published' = TRUE
  /\ curr_wp_pub' = cw0
  /\ dist_pub' = d2
  /\ goal_streak' = streak
  /\ IF IsLastWaypoint(cw0, current_waypoints)
     THEN \* last waypoint
          IF GoalReached(d2, shutdown_condition)
          THEN /\ shutdown_condition' = TRUE
               /\ state' = shutdown_behavior
               /\ state_pub' = Append(pub0, shutdown_behavior)
               /\ shutdown_count' = shutdown_count + 1
               /\ pc' = IF Debounced(shutdown_count + 1) THEN "done" ELSE "loop"
               /\ current_waypoint' = cw0
               /\ goal' = g0
          ELSE /\ state' = st0
               /\ state_pub' = pub0
               /\ pc' = "loop"
               /\ current_waypoint' = cw0
               /\ goal' = g0
               /\ UNCHANGED <<shutdown_condition, shutdown_count>>
     ELSE \* intermediate waypoint
          /\ UNCHANGED <<shutdown_condition, shutdown_count>>
          /\ IF Reached(d2)
             THEN /\ current_waypoint' = NextWaypoint(cw0)
                  /\ \E g1 \in ReadPose(current_waypoints, NextWaypoint(cw0)) :
                       IF g1 = Fault
                       THEN /\ goal' = g0
                            /\ state' = st0
                            /\ state_pub' = pub0
                            /\ pc' = "fault"
                       ELSE /\ goal' = g1
                            /\ state' = 0
                            /\ state_pub' = Append(pub0, 0)
                            /\ pc' = "loop"
             ELSE /\ current_waypoint' = cw0
                  /\ goal' = g0
                  /\ state' = 0
                  /\ state_pub' = Append(pub0, 0)
                  /\ pc' = "loop"

\* one iteration of while (nature::node::ok()) { ... }
LoopBody ==
  /\ pc \in {"start", "loop"}
  /\ wp_fresh' = FALSE
  /\ UNCHANGED <<globals, config>>
  /\ LET apply == NewWaypoints
         cw0   == ResetWaypoint(apply, current_waypoint)
     IN  \E g0 \in (IF apply THEN ReadPose(current_waypoints, cw0) ELSE {goal}) :
           IF g0 = Fault
           THEN TickFaultReset
           ELSE LET st0  == GoActive(apply, state)
                    pub0 == PublishState(apply, state)
                IN  IF ~DataReady(st0)
                    THEN TickSkip(apply, cw0, g0, st0, pub0)
                    ELSE \E raw \in PlanPath(g0, odom) :
                           LET rp == ComposePath(raw, current_waypoints, cw0)
                           IN  IF rp = Fault
                               THEN TickFaultCompose(apply, cw0, g0, st0, pub0, raw)
                               ELSE TickProgress(apply, cw0, g0, st0, pub0, raw, rp)

\* a loop iteration
Tick == LoopBody /\ UNCHANGED run

Next ==
  \/ Tick
  \/ OdometryCallback
  \/ MapCallback
  \/ SegmentationMapCallback
  \/ WaypointCallback
  \/ ExternalStop

Spec == Init /\ [][Next]_vars

\* ------------------------------------------- runs on a fixed waypoint list
\* the node started with a configured, non-empty waypoint list
InitFixed == Init /\ Len(current_waypoints) >= 1

\* a loop iteration, counted when it ran the plan/progress block
CountedTick ==
  /\ LoopBody
  /\ IF published'
     THEN IF far_seen \/ dist_pub' >= goal_dist * goal_dist
          THEN far_seen' = TRUE /\ active_ticks' = active_ticks
          ELSE far_seen' = FALSE /\ active_ticks' = active_ticks + 1
     ELSE UNCHANGED run

\* no list is received and the node is not shut down from outside
NextFixed ==
  \/ CountedTick
  \/ OdometryCallback
  \/ MapCallback
  \/ SegmentationMapCallback

\* the loop runs at 20 Hz for as long as it has not ended: an iteration that
\* changes anything is eventually taken
SpecFixed == InitFixed /\ [][NextFixed]_vars /\ WF_vars(CountedTick)

TypeOK ==
  /\ odom \in Poses
  /\ current_waypoint \in 0..(MaxWaypoints + MaxOverrun)
  /\ shutdown_count \in 0..(ShutdownTicks + 1)
  /\ state \in {-1, 0, 1, 2, 3}

\* ======================================================================
\* Properties
\* ======================================================================
ShutdownStates == {1, 2, 3}
LastIndex == Len(current_waypoints) - 1
Threshold2 == goal_dist * goal_dist
LastPublishedState == state_pub[Len(state_pub)]

\* a loop body ran in this step and no new list was waiting for it
SettledTick == Tick /\ ~wp_fresh

\* C1: whenever the waypoint list has N >= 1 elements and the loop has run
\* since the list last changed, 0 <= index <= N-1.
C1_IndexInRange ==
  (Len(current_waypoints) >= 1 /\ ~wp_fresh /\ pc = "loop")
    => (0 <= current_waypoint /\ current_waypoint <= LastIndex)

\* C2: the tick that follows the arrival of a waypoint list works from index
\* 0 and from the first waypoint of that list: the index it publishes is 0,
\* the distance it publishes is the distance to the first waypoint, and the
\* index it leaves behind is 0 or (after an advance) 1.
C2_ReplacementResets ==
  [][(Tick /\ wp_fresh /\ pc' = "loop" /\ Len(current_waypoints) >= 1)
       => /\ current_waypoint' <= 1
          /\ published' => /\ curr_wp_pub' = 0
                           /\ dist_pub' = Dist2(current_waypoints[1], odom)]_vars

\* C3 (as stated): no step takes the lifecycle state from 1, 2 or 3 to 0.
C3_NoReturnToActive ==
  [][(state \in ShutdownStates) => (state' # 0)]_vars

\* C3 (amended): a step taken when no waypoint list has arrived since the
\* previous tick never takes the lifecycle state from 1, 2 or 3 to 0.
C3_NoReturnWithoutNewList ==
  [][(state \in ShutdownStates /\ ~wp_fresh) => state' \in ShutdownStates]_vars

\* a tick found the state at a shutdown value, with no new list, and kept it
C3_Witness ==
  state \in ShutdownStates /\ shutdown_count >= 2 /\ ~wp_fresh /\ pc = "loop"

\* C4 (as stated): the loop ends through the break only when the last 11
\* ticks in a row had the index at the last waypoint and distance < threshold.
C4_ConsecutiveDebounce ==
  pc = "done" => goal_streak > ShutdownTicks

\* C4 (amended): the shutdown counter only moves up by one, on a tick at the
\* last index whose distance is below the threshold or that finds the
\* goal-reached latch already set; the loop ends through the break exactly
\* on the tick that takes the counter from 10 to 11.
C4_LatchedDebounce ==
  /\ [][shutdown_count' # shutdown_count
          => /\ shutdown_count' = shutdown_count + 1
             /\ published' /\ curr_wp_pub' = LastIndex
             /\ (dist_pub' < Threshold2 \/ shutdown_condition)]_vars
  /\ [][(pc' = "done") <=> (pc = "done" \/ shutdown_count' > ShutdownTicks)]_vars
  /\ [](shutdown_count <= ShutdownTicks + 1)

\* the run ended on a tick whose distance was not below the threshold
C4_Witness ==
  pc = "done" /\ goal_streak = 0 /\ dist_pub >= Threshold2

\* C5 (as stated): eleven consecutive goal-reached ticks end the loop, the
\* loop does not end during such a run of ticks before its eleventh, and
\* the last state published before the end is the shutdown behaviour.
C5_EleventhTick ==
  /\ goal_streak = ShutdownTicks + 1 => pc = "done"
  /\ (pc = "done" /\ goal_streak >= 1)
       => (goal_streak = ShutdownTicks + 1 /\ LastPublishedState = shutdown_behavior)

\* C5 (amended): a run of consecutive goal-reached ticks ends the loop at
\* its eleventh tick at the latest, namely on the tick at which the
\* cumulative counter reaches 11 (the eleventh of the run when no tick was
\* counted before it); the last state published is the shutdown behaviour;
\* the loop is left only by that break or by the stop signal, the process
\* otherwise only by a faulting read.
C5_CumulativeTermination ==
  /\ goal_streak <= shutdown_count
  /\ goal_streak = ShutdownTicks + 1 => pc = "done"
  /\ pc = "done" => /\ shutdown_count = ShutdownTicks + 1
                    /\ LastPublishedState = shutdown_behavior
                    /\ state = shutdown_behavior
  /\ pc \in {"start", "loop"} => shutdown_count <= ShutdownTicks
  /\ pc \in {"start", "loop", "done", "stopped", "fault"}

\* the loop ended on the eleventh tick of an unbroken run
C5_Witness ==
  pc = "done" /\ goal_streak = ShutdownTicks + 1 /\ shutdown_behavior = 2

\* C6: a tick that finds the index away from the last index leaves it one
\* higher if the distance it measured is below the threshold and unchanged
\* otherwise.
C6_AdvanceIffWithin ==
  (published /\ ~wp_fresh /\ curr_wp_pub # LastIndex)
    => current_waypoint = IF dist_pub < Threshold2 THEN curr_wp_pub + 1
                          ELSE curr_wp_pub

\* the pose is within the threshold of both waypoints and the index went
\* from 0 to 1 only
C6_Witness ==
  /\ published /\ ~wp_fresh /\ pc = "loop"
  /\ Len(current_waypoints) = 2 /\ curr_wp_pub = 0 /\ current_waypoint = 1
  /\ odom = <<2, 0>> /\ dist_pub < Threshold2
  /\ Dist2(current_waypoints[2], odom) < Threshold2

\* C7: a tick that starts with a pose, no new list, the index at the last
\* index and the pose within the threshold of the last waypoint sets the
\* state to the shutdown behaviour and leaves the index alone.
C7_GoalReachedAtLast ==
  [][(SettledTick /\ odom_rcvd /\ state # -1
        /\ Len(current_waypoints) >= 1 /\ current_waypoint = LastIndex
        /\ Dist2(current_waypoints[Len(current_waypoints)], odom) < Threshold2)
       => (state' = shutdown_behavior /\ current_waypoint' = current_waypoint)]_vars

\* C8: the index only goes down in the tick that follows the arrival of a
\* waypoint list, and then to 0 (or to 1 when that tick also advances).
C8_MonotoneIndex ==
  [][current_waypoint' < current_waypoint
       => (wp_fresh /\ ~wp_fresh' /\ current_waypoint' <= 1)]_vars

\* the index has advanced on a list that was received and applied
C8_Witness ==
  /\ waypoints_rcvd /\ ~waypoints_change_once /\ ~wp_fresh
  /\ current_waypoint = 1 /\ curr_wp_pub = 1 /\ published /\ pc = "loop"

\* the reference concatenation: raw points, then the waypoints after index cw
CompositeRef(raw, wps, cw) ==
  IF Len(raw) > 1
  THEN raw \o [i \in 1..(IF Len(wps) - 1 - cw > 0 THEN Len(wps) - 1 - cw ELSE 0)
                 |-> wps[cw + 1 + i]]
  ELSE raw

\* C9: every tick that gets a raw path from the planner publishes the
\* reference concatenation of that path and the waypoints after the index.
C9_CompositeIsReference ==
  (planned /\ ~wp_fresh)
    => /\ published
       /\ path_pub = CompositeRef(path, current_waypoints, curr_wp_pub)

\* C10 (as stated): without any waypoint list the state is -1; the tick
\* that applies a newly loaded list leaves the state at 0.
C10_ActiveNextTick ==
  /\ [](( Len(LoadWaypoints(waypoints_x_list, waypoints_y_list)) = 0
          /\ ~waypoints_rcvd) => state = -1)
  /\ [][(waypoints_change_once /\ ~waypoints_change_once'
           /\ Len(current_waypoints) >= 1 /\ pc' = "loop")
          => (state' = 0)]_vars

\* C10 (amended): without any waypoint list the state is -1 and only -1 is
\* published; the tick that applies the first received list publishes 0, and
\* leaves the state at 0 unless a pose has been received and the first
\* waypoint is the last one and the goal is reached (within the threshold,
\* or latched earlier), in which case it leaves the shutdown behaviour.
C10_StartupUntilList ==
  /\ [](( Len(LoadWaypoints(waypoints_x_list, waypoints_y_list)) = 0
          /\ ~waypoints_rcvd)
         => (state = -1 /\ \A i \in 1..Len(state_pub) : state_pub[i] = -1))
  /\ [][(waypoints_change_once /\ ~waypoints_change_once')
          => /\ state_pub'[2] = 0
             /\ state' \in {0, shutdown_behavior}
             /\ state' # 0 => /\ odom_rcvd
                              /\ curr_wp_pub' = 0
                              /\ Len(current_waypoints) = 1
                              /\ (dist_pub' < Threshold2 \/ shutdown_condition)]_vars

\* started without waypoints, then a one-waypoint list arrived with the
\* vehicle already on it: the applying tick published -1, 0 and the
\* shutdown behaviour
C10_Witness ==
  /\ Len(LoadWaypoints(waypoints_x_list, waypoints_y_list)) = 0
  /\ ~waypoints_change_once /\ Len(current_waypoints) = 1
  /\ shutdown_count = 1 /\ state = shutdown_behavior
  /\ state_pub = <<-1, 0, shutdown_behavior>>

\* C11: once the loop has run since the list last changed, a lifecycle
\* state other than Startup goes with a non-empty waypoint list; a received
\* list without positions does not take the state out of Startup.
C11_NonEmptyOnceActive ==
  (state # -1 /\ ~wp_fresh /\ pc = "loop") => Len(current_waypoints) >= 1

\* C12 (as stated): with configured x and y lists of different lengths the
\* waypoint list is empty and the state is Startup until a list is received.
C12_MismatchLoadsNothing ==
  (Len(waypoints_x_list) # Len(waypoints_y_list) /\ ~waypoints_rcvd)
    => (current_waypoints = <<>> /\ state = -1)

\* C12 (amended): with configured x and y lists of different lengths the
\* waypoint list is, until a list is received, the first min(|x|,|y|)
\* configured pairs; it is empty and the state is Startup exactly when one
\* of the two configured lists is empty, otherwise the state is not Startup.
C12_MismatchLoadsPrefix ==
  (Len(waypoints_x_list) # Len(waypoints_y_list) /\ ~waypoints_rcvd)
    => /\ Len(current_waypoints) = Min(Len(waypoints_x_list), Len(waypoints_y_list))
       /\ \A i \in 1..Len(current_waypoints) :
            current_waypoints[i] = <<waypoints_x_list[i], waypoints_y_list[i]>>
       /\ (state = -1) <=> (Len(waypoints_x_list) = 0 \/ Len(waypoints_y_list) = 0)
       /\ state # -1 => goal = <<waypoints_x_list[1], waypoints_y_list[1]>>

\* one x was configured for two y: the loop runs on the one-waypoint list
C12_Witness ==
  /\ Len(waypoints_x_list) = 1 /\ Len(waypoints_y_list) = 2
  /\ ~waypoints_rcvd /\ pc = "loop" /\ published
  /\ Len(current_waypoints) = 1 /\ state # -1

\* C13: at a loop head with no new list waiting, once out of Startup, the
\* goal is the position of the waypoint at the current index.
C13_GoalIsCurrentWaypoint ==
  (pc = "loop" /\ ~wp_fresh /\ state # -1 /\ Len(current_waypoints) >= 1)
    => /\ current_waypoint < Len(current_waypoints)
       /\ goal = current_waypoints[current_waypoint + 1]

\* C14: the shutdown-behaviour selector is one of 1, 2, 3 (a configured
\* value outside 1..3 having been replaced by 1) and never changes; a tick
\* whose plan/progress block runs with the index on the last waypoint and
\* the distance below the threshold sets the state to the selector; the
\* state first leaves for a shutdown value only in such a tick, and every
\* shutdown value the state takes is the selector.
C14_ShutdownValue ==
  /\ [](/\ shutdown_behavior \in {IF r \in 1..3 THEN r ELSE 1 : r \in ShutdownParams}
        /\ (state \in ShutdownStates) => state = shutdown_behavior)
  /\ [][/\ shutdown_behavior' = shutdown_behavior
        /\ (published' /\ curr_wp_pub' = LastIndex /\ dist_pub' < Threshold2 /\ Tick)
             => (state' = shutdown_behavior /\ LastPublishedState' = shutdown_behavior)
        /\ (state \notin ShutdownStates /\ state' \in ShutdownStates
              /\ ~shutdown_condition)
             => (published' /\ curr_wp_pub' = LastIndex /\ dist_pub' < Threshold2)
       ]_vars

\* the first tick within the threshold of the last waypoint has just set
\* the state to selector 2
C14_Witness ==
  /\ state = 2 /\ shutdown_behavior = 2 /\ shutdown_count = 1
  /\ published /\ curr_wp_pub = LastIndex /\ dist_pub < Threshold2
  /\ LastPublishedState = 2

\* C15 (as stated): a tick that starts with no pose ever received, or with
\* the state Startup, publishes the state but no composite path, waypoint
\* list, index or distance, and leaves index, goal, shutdown latch and
\* counter as they were; the pose-received flag is never cleared.
C15_SkipFrame ==
  /\ [][((~odom_rcvd \/ state = -1) /\ Tick)
          => /\ ~planned' /\ ~published'
             /\ UNCHANGED <<path_pub, curr_wp_pub, dist_pub, current_waypoint,
                            goal, shutdown_condition, shutdown_count>>
             /\ Len(state_pub') >= 1 /\ state_pub'[1] = state
       ]_vars
  /\ [][odom_rcvd => odom_rcvd']_vars

\* C15 (amended): a tick with no pose ever received, or with the state
\* Startup and no first received list waiting to be applied, publishes the
\* state but no composite path, waypoint list, index or distance, and
\* leaves index, shutdown latch and counter as they were; goal and state
\* are left as they were unless the tick applies the first received list,
\* which makes the goal that list's first waypoint and the state Active;
\* the pose-received flag is never cleared.
C15_SkipFrameUnlessApplied ==
  /\ [][LET first == waypoints_rcvd /\ waypoints_change_once IN
        ((~odom_rcvd \/ (state = -1 /\ ~first)) /\ Tick)
          => /\ ~planned' /\ ~published'
             /\ UNCHANGED <<path_pub, curr_wp_pub, dist_pub, current_waypoint,
                            shutdown_condition, shutdown_count>>
             /\ Len(state_pub') >= 1 /\ state_pub'[1] = state
             /\ ~first => UNCHANGED <<goal, state>>
             /\ (first /\ Len(current_waypoints) >= 1)
                  => (goal' = current_waypoints[1] /\ state' = 0)
       ]_vars
  /\ [][odom_rcvd => odom_rcvd']_vars

\* a tick without a pose applied the list [(3,0)] and skipped the block
C15_Witness ==
  /\ ~odom_rcvd /\ pc = "loop" /\ ~wp_fresh
  /\ ~waypoints_change_once /\ current_waypoints = << <<3, 0>> >>
  /\ goal = <<3, 0>> /\ state = 0 /\ state_pub = <<-1, 0>>
  /\ ~planned /\ ~published /\ current_waypoint = 0 /\ shutdown_count = 0

\* C16: every tick publishes the lifecycle state at least once: the first
\* value it publishes is the state the tick started with, the last one the
\* state it ends with.
C16_StatePublishedEveryTick ==
  [][\/ /\ Len(state_pub') >= 1
        /\ state_pub'[1] = state
        /\ LastPublishedState' = state'
     \/ ~Tick]_vars

\* a tick with no pose and no waypoint list published the unchanged
\* Startup state
C16_Witness ==
  /\ pc = "loop" /\ ~odom_rcvd /\ ~waypoints_rcvd
  /\ state = -1 /\ state_pub = <<-1>> /\ ~planned

\* C17: on a fixed non-empty list of N waypoints, as long as every tick
\* that ran the plan/progress block was within the threshold of its goal,
\* after k such ticks the index is min(k, N-1) and the shutdown counter is
\* max(k-(N-1), 0), and the loop has ended exactly when k = (N-1) + 11; and
\* if for every waypoint some tick is within the threshold of it while it
\* is the goal, the loop eventually ends.
C17_FixedListTermination ==
  /\ [](~far_seen =>
          LET N == Len(current_waypoints) IN
          /\ current_waypoint = Min(active_ticks, N - 1)
          /\ shutdown_count =
               IF active_ticks > N - 1 THEN active_ticks - (N - 1) ELSE 0
          /\ (pc = "done") <=> (active_ticks = (N - 1) + ShutdownTicks + 1))
  /\ (\A i \in 0..(MaxWaypoints - 1) :
        (i < Len(current_waypoints))
          => <>(published /\ curr_wp_pub = i /\ dist_pub < Threshold2))
       => <>(pc = "done")

\* two waypoints, every tick within the threshold: the loop has ended
\* after 1 + 11 ticks
C17_Witness ==
  /\ Len(current_waypoints) = 2 /\ ~far_seen /\ active_ticks = 12
  /\ pc = "done" /\ current_waypoint = 1 /\ shutdown_count = 11

\* C18: the shutdown latch, once set, is never cleared and the shutdown
\* counter never decreases; once the latch is set, every tick that has the
\* index on the last waypoint (at its start when no new list is waiting,
\* and in any case when it checks the progression) sets and publishes the
\* shutdown value and adds one to the counter whatever the distance, and
\* the loop ends in the tick that takes the counter above 10, and in no
\* other.
C18_LatchedCumulativeCount ==
  /\ [](shutdown_condition => (odom_rcvd /\ state # -1 /\ shutdown_count >= 1))
  /\ [][/\ shutdown_condition => shutdown_condition'
        /\ shutdown_count' >= shutdown_count
        /\ (shutdown_condition /\ ~wp_fresh /\ Len(current_waypoints) >= 1
              /\ current_waypoint = LastIndex /\ Tick)
             => /\ published' /\ dist_pub' = Dist2(goal, odom)
                /\ state' = shutdown_behavior
                /\ LastPublishedState' = shutdown_behavior
                /\ shutdown_count' = shutdown_count + 1
        /\ (shutdown_condition /\ published' /\ curr_wp_pub' = LastIndex /\ Tick)
             => /\ state' = shutdown_behavior
                /\ LastPublishedState' = shutdown_behavior
                /\ shutdown_count' = shutdown_count + 1
        /\ (pc' = "done" /\ pc # "done")
             <=> (shutdown_count' > ShutdownTicks /\ shutdown_count <= ShutdownTicks)
       ]_vars

\* the counter went up on a tick that was outside the threshold
C18_Witness ==
  /\ shutdown_condition /\ shutdown_count >= 2 /\ pc = "loop"
  /\ published /\ curr_wp_pub = LastIndex /\ dist_pub >= Threshold2
  /\ goal_streak = 0 /\ state = shutdown_behavior

\* C19: the lifecycle state is always -1, 0 or the shutdown-behaviour
\* selector, which is one of 1, 2, 3; once the state is not -1 it is never
\* -1 again.
C19_StateValues ==
  /\ [](state \in {-1, 0, shutdown_behavior} /\ shutdown_behavior \in ShutdownStates)
  /\ [][(state # -1) => (state' # -1)]_vars

\* the state went from Startup to Active and on to the shutdown value
C19_Witness ==
  /\ Len(LoadWaypoints(waypoints_x_list, waypoints_y_list)) = 0
  /\ state = shutdown_behavior /\ shutdown_count >= 1

====
